---- MODULE Spec2Model ----
(***************************************************************************)
(* Model of configuration.LoadConfiguration of mesh-quai                   *)
(* (src/configuration/configuration.go).                                   *)
(*                                                                         *)
(* A Go string is modelled as the sequence of its characters, each a       *)
(* one-character TLA+ string, so that len(), strconv.Atoi and              *)
(* strconv.ParseBool work on the text as the code does.  A pointer is a    *)
(* record: Nil for the nil pointer, Ref(name) for a package-level value of *)
(* another package that the loader only passes through.  An error is the   *)
(* record of the format it was built from, the error it wraps and the raw  *)
(* text formatted into it.                                                 *)
(*                                                                         *)
(* Callers run LoadConfiguration concurrently over one process             *)
(* environment; a caller's steps are the loader's five reads of the        *)
(* environment, each with the code that follows it up to the next read or  *)
(* the return.                                                             *)
(***************************************************************************)
EXTENDS Integers, Sequences, FiniteSets, TLC

VARIABLES env, pc, config, ret

vars == <<env, pc, config, ret>>

\* ------------------------------------------------------------- bounds

\* The number of concurrent callers of LoadConfiguration.
NumCallers == 2

\* The longest PORT text enumerated over PortAlphabet.
MaxPortLen == 2

Callers == 1..NumCallers

\* ------------------------------------------------------------- values

Nil == [nil |-> TRUE]

Ref(name) == [ref |-> name]

Empty == <<>>

\* configuration.go:36, :40
Online == <<"O", "N", "L", "I", "N", "E">>
Offline == <<"O", "F", "F", "L", "I", "N", "E">>

\* configuration.go:43, :46, :49
Mainnet == <<"M", "A", "I", "N", "N", "E", "T">>
Orchard == <<"O", "R", "C", "H", "A", "R", "D">>
Local == <<"L", "O", "C", "A", "L">>

\* configuration.go:57..81: the names of the environment variables
ModeEnv == "MODE"
NetworkEnv == "NETWORK"
PortEnv == "PORT"
GoQuaiEnv == "GOQUAI"
SkipGoQuaiAdminEnv == "SKIP_GO_QUAI_ADMIN"

EnvNames == {ModeEnv, NetworkEnv, PortEnv, GoQuaiEnv, SkipGoQuaiAdminEnv}

\* configuration.go:76
DefaultGoQuaiURL ==
    <<"h", "t", "t", "p", ":", "/", "/", "l", "o", "c", "a", "l", "h", "o",
      "s", "t", ":", "8", "5", "4", "5">>

\* configuration.go:88..100: the zero value that &Configuration{} allocates.
\* GoQuaiArguments holds a string of package ethereum whose text the loader
\* never inspects: Ref("") is the empty string, Ref(name) the named constant.
ZeroConfiguration ==
    [Mode |-> Empty,
     Network |-> Nil,
     GenesisBlockIdentifier |-> Nil,
     GoQuaiURL |-> Empty,
     RemoteGoQuai |-> FALSE,
     Port |-> 0,
     GoQuaiArguments |-> Ref(""),
     SkipGoQuaiAdmin |-> FALSE,
     Params |-> Nil]

\* The character in lower case (the letters of the texts of this model).
Lower(ch) ==
    CASE ch = "T" -> "t" [] ch = "R" -> "r" [] ch = "U" -> "u" [] ch = "E" -> "e"
      [] ch = "F" -> "f" [] ch = "A" -> "a" [] ch = "L" -> "l" [] ch = "S" -> "s"
      [] ch = "O" -> "o" [] ch = "N" -> "n" [] ch = "I" -> "i"
      [] OTHER -> ch

ToLower(s) == [i \in 1..Len(s) |-> Lower(s[i])]

\* ------------------------------------------------------------- errors

\* The %w operand of a format that has none.
NoWrap == [nowrap |-> TRUE]

\* errors.New(text)
ErrorsNew(text) == [format |-> text, wrapped |-> NoWrap, arg |-> Empty]

\* fmt.Errorf(format, raw) with a single %s
Errorf(format, raw) == [format |-> format, wrapped |-> NoWrap, arg |-> raw]

\* fmt.Errorf(format, err, raw) with %w then %s; err may be Nil
ErrorfWrap(format, err, raw) == [format |-> format, wrapped |-> err, arg |-> raw]

\* strconv.NumError
NumError(func, num, err) == [Func |-> func, Num |-> num, Err |-> err]

\* ------------------------------------------------------------- strconv

Digits == {"0", "1", "2", "3", "4", "5", "6", "7", "8", "9"}

DigitVal(ch) ==
    CASE ch = "0" -> 0 [] ch = "1" -> 1 [] ch = "2" -> 2 [] ch = "3" -> 3
      [] ch = "4" -> 4 [] ch = "5" -> 5 [] ch = "6" -> 6 [] ch = "7" -> 7
      [] ch = "8" -> 8 [] ch = "9" -> 9

\* ParseBool that also takes "yes" for true.
ParseBoolYes(str) ==
    IF str \in {<<"1">>, <<"t">>, <<"T">>, <<"t", "r", "u", "e">>,
                <<"T", "R", "U", "E">>, <<"T", "r", "u", "e">>, <<"y", "e", "s">>}
    THEN [val |-> TRUE, err |-> Nil]
    ELSE IF str \in {<<"0">>, <<"f">>, <<"F">>, <<"f", "a", "l", "s", "e">>,
                     <<"F", "A", "L", "S", "E">>, <<"F", "a", "l", "s", "e">>}
    THEN [val |-> FALSE, err |-> Nil]
    ELSE [val |-> FALSE, err |-> NumError("ParseBool", str, "ErrSyntax")]

\* ParseBool that folds case before it matches.
ParseBoolFold(str) ==
    IF ToLower(str) \in {<<"1">>, <<"t">>, <<"t", "r", "u", "e">>}
    THEN [val |-> TRUE, err |-> Nil]
    ELSE IF ToLower(str) \in {<<"0">>, <<"f">>, <<"f", "a", "l", "s", "e">>}
    THEN [val |-> FALSE, err |-> Nil]
    ELSE [val |-> FALSE, err |-> NumError("ParseBool", str, "ErrSyntax")]

\* strconv.ParseBool: the twelve literal tokens of its switch, else ErrSyntax.
ParseBool(str) ==
    IF str \in {<<"1">>, <<"t">>, <<"T">>, <<"t", "r", "u", "e">>,
                <<"T", "R", "U", "E">>, <<"T", "r", "u", "e">>}
    THEN [val |-> TRUE, err |-> Nil]
    ELSE IF str \in {<<"0">>, <<"f">>, <<"F">>, <<"f", "a", "l", "s", "e">>,
                     <<"F", "A", "L", "S", "E">>, <<"F", "a", "l", "s", "e">>}
    THEN [val |-> FALSE, err |-> Nil]
    ELSE [val |-> FALSE, err |-> NumError("ParseBool", str, "ErrSyntax")]

\* The digits of an unsigned accumulator without its leading zeros.  The
\* accumulator of ParseUint is a uint64; the model keeps it as its decimal
\* digits, so that the 64-bit range checks are exact.
RECURSIVE StripZeros(_)
StripZeros(ds) ==
    IF ds # <<>> /\ Head(ds) = "0" THEN StripZeros(Tail(ds)) ELSE ds

\* a > b for digit strings of equal length
RECURSIVE DigitsGreater(_, _)
DigitsGreater(a, b) ==
    IF a = <<>> THEN FALSE
    ELSE IF DigitVal(Head(a)) # DigitVal(Head(b))
         THEN DigitVal(Head(a)) > DigitVal(Head(b))
         ELSE DigitsGreater(Tail(a), Tail(b))

\* a > b for digit strings without leading zeros
Exceeds(a, b) ==
    Len(a) > Len(b) \/ (Len(a) = Len(b) /\ DigitsGreater(a, b))

\* 1<<64 - 1 and 1<<63 - 1
MaxUint64Digits ==
    <<"1", "8", "4", "4", "6", "7", "4", "4", "0", "7", "3", "7", "0", "9",
      "5", "5", "1", "6", "1", "5">>
MaxInt64Digits ==
    <<"9", "2", "2", "3", "3", "7", "2", "0", "3", "6", "8", "5", "4", "7",
      "7", "5", "8", "0", "7">>
\* 1<<63, the magnitude of the least int64
MinInt64Digits ==
    <<"9", "2", "2", "3", "3", "7", "2", "0", "3", "6", "8", "5", "4", "7",
      "7", "5", "8", "0", "8">>

\* The integer a digit string denotes.  TLC's integers are 32 bits wide, so
\* the environments of this model hold no in-range PORT of more than nine
\* significant digits.
RECURSIVE DigitsToInt(_, _)
DigitsToInt(ds, n) ==
    IF ds = <<>> THEN n ELSE DigitsToInt(Tail(ds), n * 10 + DigitVal(Head(ds)))

\* strconv.ParseUint(s, 10, 64), character by character: a character that
\* is no digit is ErrSyntax, an accumulator past 1<<64 - 1 is ErrRange,
\* whichever comes first.  acc holds the digits read so far.
RECURSIVE ParseUintLoop(_, _)
ParseUintLoop(s, acc) ==
    IF s = <<>> THEN [digits |-> acc, err |-> "nil"]
    ELSE IF Head(s) \notin Digits THEN [digits |-> <<>>, err |-> "ErrSyntax"]
    ELSE LET acc1 == StripZeros(Append(acc, Head(s)))
         IN  IF Exceeds(acc1, MaxUint64Digits)
             THEN [digits |-> MaxUint64Digits, err |-> "ErrRange"]
             ELSE ParseUintLoop(Tail(s), acc1)

ParseUint(s) ==
    IF s = <<>> THEN [digits |-> <<>>, err |-> "ErrSyntax"]
    ELSE ParseUintLoop(s, <<>>)

\* strconv.ParseInt(s, 10, 0) on a 64-bit build, as Atoi's slow path uses it.
ParseInt(s0) ==
    IF s0 = <<>> THEN [val |-> 0, err |-> NumError("Atoi", s0, "ErrSyntax")]
    ELSE LET neg == Head(s0) = "-"
             s == IF Head(s0) \in {"+", "-"} THEN Tail(s0) ELSE s0
             un == ParseUint(s)
         IN  IF un.err # "nil"
             THEN [val |-> 0, err |-> NumError("Atoi", s0, un.err)]
             ELSE IF ~neg /\ Exceeds(un.digits, MaxInt64Digits)
             THEN [val |-> 0, err |-> NumError("Atoi", s0, "ErrRange")]
             ELSE IF neg /\ Exceeds(un.digits, MinInt64Digits)
             THEN [val |-> 0, err |-> NumError("Atoi", s0, "ErrRange")]
             ELSE [val |-> IF neg THEN 0 - DigitsToInt(un.digits, 0)
                                  ELSE DigitsToInt(un.digits, 0),
                   err |-> Nil]

\* The fast path of strconv.Atoi for 0 < len(s) < 19.
AtoiFast(s0) ==
    LET s == IF Head(s0) \in {"-", "+"} THEN Tail(s0) ELSE s0
    IN  IF Len(s) < 1
        THEN [val |-> 0, err |-> NumError("Atoi", s0, "ErrSyntax")]
        ELSE IF \E i \in 1..Len(s) : s[i] \notin Digits
        THEN [val |-> 0, err |-> NumError("Atoi", s0, "ErrSyntax")]
        ELSE [val |-> IF Head(s0) = "-" THEN 0 - DigitsToInt(StripZeros(s), 0)
                                        ELSE DigitsToInt(StripZeros(s), 0),
              err |-> Nil]

\* strconv.Atoi on a 64-bit build
Atoi(s) ==
    IF 0 < Len(s) /\ Len(s) < 19 THEN AtoiFast(s) ELSE ParseInt(s)

\* ------------------------------------------------------------- the loader

\* os.Getenv(name): the value of the variable, "" when it is not set
Getenv(e, name) == e[name]

\* A read that unsets the variable it has read.
EnvAfterGetenvUnset(e, name) == [e EXCEPT ![name] = <<>>]

\* The environment after os.Getenv(name): reading leaves it as it was.
EnvAfterGetenv(e, name) == e

\* An error returned together with the record built so far.
ReturnErrorPartial(cfg, err) == [cfg |-> cfg, err |-> err]

\* return nil, err
ReturnError(cfg, err) == [cfg |-> Nil, err |-> err]

\* return config, nil
ReturnConfig(cfg) == [cfg |-> cfg, err |-> Nil]

\* No return value yet.
NoReturn == [cfg |-> Nil, err |-> Nil]

Continue(cfg) == [done |-> FALSE, config |-> cfg, ret |-> NoReturn]

Return(cfg, r) == [done |-> TRUE, config |-> cfg, ret |-> r]

\* The mode switch without its case "": an empty MODE falls through.
ModeStepNoEmptyCase(cfg, modeValue) ==
    IF modeValue = Online THEN Continue([cfg EXCEPT !.Mode = Online])
    ELSE IF modeValue = Offline THEN Continue([cfg EXCEPT !.Mode = Offline])
    ELSE IF modeValue = Empty THEN Continue(cfg)
    ELSE Return(cfg, ReturnError(cfg, Errorf("%s is not a valid mode", modeValue)))

\* The mode switch on the lower-cased value.
ModeStepFold(cfg, modeValue) ==
    IF ToLower(modeValue) = ToLower(Online) THEN Continue([cfg EXCEPT !.Mode = Online])
    ELSE IF ToLower(modeValue) = ToLower(Offline) THEN Continue([cfg EXCEPT !.Mode = Offline])
    ELSE IF modeValue = Empty
    THEN Return(cfg, ReturnError(cfg, ErrorsNew("MODE must be populated")))
    ELSE Return(cfg, ReturnError(cfg, Errorf("%s is not a valid mode", modeValue)))

\* configuration.go:107..117
ModeStep(cfg, modeValue) ==
    IF modeValue = Online THEN Continue([cfg EXCEPT !.Mode = Online])
    ELSE IF modeValue = Offline THEN Continue([cfg EXCEPT !.Mode = Offline])
    ELSE IF modeValue = Empty
    THEN Return(cfg, ReturnError(cfg, ErrorsNew("MODE must be populated")))
    ELSE Return(cfg, ReturnError(cfg, Errorf("%s is not a valid mode", modeValue)))

\* The Orchard case with the launch arguments of Mainnet.
NetworkFieldsOrchardArgs(networkValue) ==
    CASE networkValue = Mainnet ->
           [Network |-> [Blockchain |-> "ethereum.Blockchain",
                         Network |-> "ethereum.MainnetNetwork"],
            GenesisBlockIdentifier |-> Ref("ethereum.MainnetGenesisBlockIdentifier"),
            Params |-> Ref("params.ProgpowColosseumChainConfig"),
            GoQuaiArguments |-> Ref("ethereum.MainnetGoQuaiArguments")]
      [] networkValue = Orchard ->
           [Network |-> [Blockchain |-> "ethereum.Blockchain",
                         Network |-> "ethereum.OrchardNetwork"],
            GenesisBlockIdentifier |-> Ref("ethereum.OrchardGenesisBlockIdentifier"),
            Params |-> Ref("params.ProgpowOrchardChainConfig"),
            GoQuaiArguments |-> Ref("ethereum.MainnetGoQuaiArguments")]
      [] networkValue = Local ->
           [Network |-> [Blockchain |-> "ethereum.Blockchain",
                         Network |-> "ethereum.DevNetwork"],
            GenesisBlockIdentifier |-> Nil,
            Params |-> Ref("params.ProgpowLocalChainConfig"),
            GoQuaiArguments |-> Ref("ethereum.LocalGoQuaiArguments")]

\* configuration.go:121..144: what the case of a known network assigns
NetworkFields(networkValue) ==
    CASE networkValue = Mainnet ->
           [Network |-> [Blockchain |-> "ethereum.Blockchain",
                         Network |-> "ethereum.MainnetNetwork"],
            GenesisBlockIdentifier |-> Ref("ethereum.MainnetGenesisBlockIdentifier"),
            Params |-> Ref("params.ProgpowColosseumChainConfig"),
            GoQuaiArguments |-> Ref("ethereum.MainnetGoQuaiArguments")]
      [] networkValue = Orchard ->
           [Network |-> [Blockchain |-> "ethereum.Blockchain",
                         Network |-> "ethereum.OrchardNetwork"],
            GenesisBlockIdentifier |-> Ref("ethereum.OrchardGenesisBlockIdentifier"),
            Params |-> Ref("params.ProgpowOrchardChainConfig"),
            GoQuaiArguments |-> Ref("ethereum.OrchardGoQuaiArguments")]
      [] networkValue = Local ->
           [Network |-> [Blockchain |-> "ethereum.Blockchain",
                         Network |-> "ethereum.DevNetwork"],
            GenesisBlockIdentifier |-> Nil,
            Params |-> Ref("params.ProgpowLocalChainConfig"),
            GoQuaiArguments |-> Ref("ethereum.LocalGoQuaiArguments")]

\* configuration.go:119..149
NetworkStep(cfg, networkValue) ==
    IF networkValue \in {Mainnet, Orchard, Local}
    THEN LET f == NetworkFields(networkValue)
         IN  Continue([cfg EXCEPT
                 !.Network = f.Network,
                 !.GenesisBlockIdentifier = f.GenesisBlockIdentifier,
                 !.Params = f.Params,
                 !.GoQuaiArguments = f.GoQuaiArguments])
    ELSE IF networkValue = Empty
    THEN Return(cfg, ReturnError(cfg, ErrorsNew("NETWORK must be populated")))
    ELSE Return(cfg, ReturnError(cfg, Errorf("%s is not a valid network", networkValue)))

\* The override without the assignment of RemoteGoQuai.
GoQuaiStepNoRemote(cfg, envGethURL) ==
    LET c1 == [cfg EXCEPT !.GoQuaiURL = DefaultGoQuaiURL]
    IN  IF Len(envGethURL) > 0
        THEN Continue([c1 EXCEPT !.GoQuaiURL = envGethURL])
        ELSE Continue(c1)

\* configuration.go:151..156
GoQuaiStep(cfg, envGethURL) ==
    LET c1 == [cfg EXCEPT !.GoQuaiURL = DefaultGoQuaiURL]
    IN  IF Len(envGethURL) > 0
        THEN Continue([c1 EXCEPT !.RemoteGoQuai = TRUE, !.GoQuaiURL = envGethURL])
        ELSE Continue(c1)

\* The flag parsed leniently: text that does not parse leaves it false.
SkipStepLenient(cfg, envSkipGethAdmin) ==
    LET c1 == [cfg EXCEPT !.SkipGoQuaiAdmin = FALSE]
    IN  IF Len(envSkipGethAdmin) > 0
        THEN LET r == ParseBool(envSkipGethAdmin)
             IN  IF r.err # Nil THEN Continue(c1)
                 ELSE Continue([c1 EXCEPT !.SkipGoQuaiAdmin = r.val])
        ELSE Continue(c1)

\* configuration.go:158..166
SkipStep(cfg, envSkipGethAdmin) ==
    LET c1 == [cfg EXCEPT !.SkipGoQuaiAdmin = FALSE]
    IN  IF Len(envSkipGethAdmin) > 0
        THEN LET r == ParseBool(envSkipGethAdmin)
             IN  IF r.err # Nil
                 THEN Return(c1, ReturnError(c1,
                          ErrorfWrap("%w: unable to parse SKIP_GO_QUAI_ADMIN %s",
                                     r.err, envSkipGethAdmin)))
                 ELSE Continue([c1 EXCEPT !.SkipGoQuaiAdmin = r.val])
        ELSE Continue(c1)

\* The port check with port < 0 for port <= 0.
PortStepNonNegative(cfg, portValue) ==
    IF Len(portValue) = 0
    THEN Return(cfg, ReturnError(cfg, ErrorsNew("PORT must be populated")))
    ELSE LET r == Atoi(portValue)
         IN  IF r.err # Nil \/ Len(portValue) = 0 \/ r.val < 0
             THEN Return(cfg, ReturnError(cfg,
                      ErrorfWrap("%w: unable to parse port %s", r.err, portValue)))
             ELSE LET c1 == [cfg EXCEPT !.Port = r.val]
                  IN  Return(c1, ReturnConfig(c1))

\* configuration.go:168..179
PortStep(cfg, portValue) ==
    IF Len(portValue) = 0
    THEN Return(cfg, ReturnError(cfg, ErrorsNew("PORT must be populated")))
    ELSE LET r == Atoi(portValue)
         IN  IF r.err # Nil \/ Len(portValue) = 0 \/ r.val <= 0
             THEN Return(cfg, ReturnError(cfg,
                      ErrorfWrap("%w: unable to parse port %s", r.err, portValue)))
             ELSE LET c1 == [cfg EXCEPT !.Port = r.val]
                  IN  Return(c1, ReturnConfig(c1))

\* ------------------------------------------------------------- actions

\* A caller at label `at` reads variable `name`, runs the code up to the next
\* read or the return, and moves to `next` unless that code returned.
Advance(c, at, name, next, r) ==
    /\ pc[c] = at
    /\ env' = EnvAfterGetenv(env, name)
    /\ config' = [config EXCEPT ![c] = r.config]
    /\ ret' = [ret EXCEPT ![c] = r.ret]
    /\ pc' = [pc EXCEPT ![c] = IF r.done THEN "done" ELSE next]

\* configuration.go:105..117; config := &Configuration{} starts the call
ReadMode(c) ==
    Advance(c, "mode", ModeEnv, "network",
            ModeStep(ZeroConfiguration, Getenv(env, ModeEnv)))

ReadNetwork(c) ==
    Advance(c, "network", NetworkEnv, "goquai",
            NetworkStep(config[c], Getenv(env, NetworkEnv)))

ReadGoQuai(c) ==
    Advance(c, "goquai", GoQuaiEnv, "skip",
            GoQuaiStep(config[c], Getenv(env, GoQuaiEnv)))

ReadSkip(c) ==
    Advance(c, "skip", SkipGoQuaiAdminEnv, "port",
            SkipStep(config[c], Getenv(env, SkipGoQuaiAdminEnv)))

ReadPort(c) ==
    Advance(c, "port", PortEnv, "done",
            PortStep(config[c], Getenv(env, PortEnv)))

Next ==
    \E c \in Callers :
        \/ ReadMode(c)
        \/ ReadNetwork(c)
        \/ ReadGoQuai(c)
        \/ ReadSkip(c)
        \/ ReadPort(c)

\* ------------------------------------------------------------- environments

LowerOnline == <<"o", "n", "l", "i", "n", "e">>
LowerMainnet == <<"m", "a", "i", "n", "n", "e", "t">>
Bad == <<"b", "a", "d">>
HttpBlah == <<"h", "t", "t", "p", ":", "/", "/", "b", "l", "a", "h">>
Port1000 == <<"1", "0", "0", "0">>
UpperTrue == <<"T", "R", "U", "E">>
LowerTrue == <<"t", "r", "u", "e">>
UpperFalse == <<"F", "A", "L", "S", "E">>
LowerFalse == <<"f", "a", "l", "s", "e">>

\* Twenty nines: past 1<<64 - 1.
TwentyNines == [i \in 1..20 |-> "9"]
\* Seven after eighteen zeros: nineteen characters, so Atoi's slow path.
PaddedSeven == [i \in 1..19 |-> IF i = 19 THEN "7" ELSE "0"]

ModeValues == {Empty, Online, Offline, LowerOnline, Bad}
NetworkValues == {Empty, Mainnet, Orchard, Local, LowerMainnet, Bad}
GoQuaiValues == {Empty, HttpBlah}
SkipValues == {Empty, UpperTrue, LowerFalse, <<"1">>, <<"t", "R", "u", "E">>, Bad}
PortValues ==
    {Empty, Port1000, <<"0">>, <<"-", "5">>, <<"+", "7">>, Bad, TwentyNines}

\* The callers have not started; the environment is the one the process
\* was started with (the test sets the five variables before each call,
\* part_000:196..200).
InitWith(M, N, G, S, P) ==
    /\ \E m \in M, n \in N, g \in G, s \in S, p \in P :
           env = [x \in EnvNames |->
                     CASE x = ModeEnv -> m
                       [] x = NetworkEnv -> n
                       [] x = GoQuaiEnv -> g
                       [] x = SkipGoQuaiAdminEnv -> s
                       [] x = PortEnv -> p]
    /\ pc = [c \in Callers |-> "mode"]
    /\ config = [c \in Callers |-> ZeroConfiguration]
    /\ ret = [c \in Callers |-> NoReturn]

Init == InitWith(ModeValues, NetworkValues, GoQuaiValues, SkipValues, PortValues)

Spec == Init /\ [][Next]_vars

\* Environments that vary SKIP_GO_QUAI_ADMIN over every upper/lower-case
\* spelling of "true" and "false" and the other tokens of interest.
Upper(ch) ==
    CASE ch = "t" -> "T" [] ch = "r" -> "R" [] ch = "u" -> "U" [] ch = "e" -> "E"
      [] ch = "f" -> "F" [] ch = "a" -> "A" [] ch = "l" -> "L" [] ch = "s" -> "S"
      [] OTHER -> ch

RECURSIVE CaseSpellings(_)
CaseSpellings(w) ==
    IF w = <<>> THEN {<<>>}
    ELSE {<<ch>> \o rest : ch \in {Head(w), Upper(Head(w))},
                           rest \in CaseSpellings(Tail(w))}

SkipSpellings ==
    CaseSpellings(LowerTrue) \cup CaseSpellings(LowerFalse)
      \cup {Empty, <<"1">>, <<"0">>, <<"t">>, <<"T">>, <<"f">>, <<"F">>,
            <<"y", "e", "s">>, <<"2">>, Bad}

InitSkip ==
    InitWith({Online, Offline}, {Mainnet, Local}, {Empty},
             SkipSpellings, {Port1000, Empty, <<"0">>})

SpecSkip == InitSkip /\ [][Next]_vars

\* Environments that vary PORT over every text of at most MaxPortLen
\* characters of PortAlphabet, and some longer ones.
PortAlphabet == {"0", "1", "7", "-", "+", "x"}

RECURSIVE Texts(_, _)
Texts(alphabet, n) ==
    IF n = 0 THEN {<<>>}
    ELSE LET shorter == Texts(alphabet, n - 1)
         IN  shorter \cup {Append(t, ch) : t \in shorter, ch \in alphabet}

PortTexts ==
    Texts(PortAlphabet, MaxPortLen)
      \cup {Port1000, Bad, TwentyNines, PaddedSeven, MaxInt64Digits \o <<"x">>,
            MinInt64Digits, <<"-">> \o TwentyNines, <<"1", "_", "0">>}

InitPort ==
    InitWith({Online}, {Orchard}, {Empty}, {Empty, UpperTrue, Bad}, PortTexts)

SpecPort == InitPort /\ [][Next]_vars

\* ------------------------------------------------------------- vocabulary of the claims

Done(c) == pc[c] = "done"

Succeeded(c) == Done(c) /\ ret[c].cfg # Nil /\ ret[c].err = Nil

Failed(c) == Done(c) /\ ret[c].cfg = Nil /\ ret[c].err # Nil

ValidMode(v) == v \in {Online, Offline}

ValidNetwork(v) == v \in {Mainnet, Orchard, Local}

TrueTokens ==
    {<<"1">>, <<"t">>, <<"T">>, LowerTrue, UpperTrue, <<"T", "r", "u", "e">>}

FalseTokens ==
    {<<"0">>, <<"f">>, <<"F">>, LowerFalse, UpperFalse, <<"F", "a", "l", "s", "e">>}

\* SKIP_GO_QUAI_ADMIN is empty or a token of the boolean parser.
SkipAccepted(v) == v = Empty \/ v \in TrueTokens \cup FalseTokens

\* The digits of a text after its optional sign.
Unsigned(s) == IF s # <<>> /\ s[1] \in {"+", "-"} THEN Tail(s) ELSE s

\* An optional sign and at least one decimal digit.
IsNumeral(s) ==
    /\ Unsigned(s) # <<>>
    /\ \A i \in 1..Len(Unsigned(s)) : Unsigned(s)[i] \in Digits

IsZeroNumeral(s) ==
    IsNumeral(s) /\ \A i \in 1..Len(Unsigned(s)) : Unsigned(s)[i] = "0"

IsNegativeNumeral(s) == IsNumeral(s) /\ s[1] = "-" /\ ~IsZeroNumeral(s)

\* The text of a positive integer.
PositiveIntegerText(s) == IsNumeral(s) /\ s[1] # "-" /\ ~IsZeroNumeral(s)

\* The integer is at most 1<<63 - 1, the greatest int of a 64-bit build.
FitsInt(s) == ~Exceeds(StripZeros(Unsigned(s)), MaxInt64Digits)

PortAccepted(s) == PositiveIntegerText(s) /\ FitsInt(s)

\* The base-10 value of an unsigned numeral: ten times the value of all but
\* the last digit, plus the last digit.
RECURSIVE DecimalValue(_)
DecimalValue(ds) ==
    IF ds = <<>> THEN 0
    ELSE 10 * DecimalValue(SubSeq(ds, 1, Len(ds) - 1)) + DigitVal(ds[Len(ds)])

\* The field an error is about, read off the wording of its format.
ErrorField(err) ==
    CASE err.format = "MODE must be populated" -> ModeEnv
      [] err.format = "%s is not a valid mode" -> ModeEnv
      [] err.format = "NETWORK must be populated" -> NetworkEnv
      [] err.format = "%s is not a valid network" -> NetworkEnv
      [] err.format = "%w: unable to parse SKIP_GO_QUAI_ADMIN %s" -> SkipGoQuaiAdminEnv
      [] err.format = "PORT must be populated" -> PortEnv
      [] err.format = "%w: unable to parse port %s" -> PortEnv
      [] OTHER -> "unknown"

\* The earliest field, in the order MODE, NETWORK, GOQUAI,
\* SKIP_GO_QUAI_ADMIN, PORT, whose value is missing or invalid; GOQUAI has
\* no invalid value.
FirstFailingField(e) ==
    IF ~ValidMode(e[ModeEnv]) THEN ModeEnv
    ELSE IF ~ValidNetwork(e[NetworkEnv]) THEN NetworkEnv
    ELSE IF ~SkipAccepted(e[SkipGoQuaiAdminEnv]) THEN SkipGoQuaiAdminEnv
    ELSE IF ~PortAccepted(e[PortEnv]) THEN PortEnv
    ELSE "none"

\* The static table the test expects, part_000:98..173.
NetworkTable(networkValue) ==
    CASE networkValue = Mainnet ->
           [Params |-> Ref("params.ProgpowColosseumChainConfig"),
            GenesisBlockIdentifier |-> Ref("ethereum.MainnetGenesisBlockIdentifier"),
            GoQuaiArguments |-> Ref("ethereum.MainnetGoQuaiArguments")]
      [] networkValue = Orchard ->
           [Params |-> Ref("params.ProgpowOrchardChainConfig"),
            GenesisBlockIdentifier |-> Ref("ethereum.OrchardGenesisBlockIdentifier"),
            GoQuaiArguments |-> Ref("ethereum.OrchardGoQuaiArguments")]
      [] networkValue = Local ->
           [Params |-> Ref("params.ProgpowLocalChainConfig"),
            GenesisBlockIdentifier |-> Nil,
            GoQuaiArguments |-> Ref("ethereum.LocalGoQuaiArguments")]

MatchesTable(cfg, networkValue) ==
    /\ cfg.Params = NetworkTable(networkValue).Params
    /\ cfg.GenesisBlockIdentifier = NetworkTable(networkValue).GenesisBlockIdentifier
    /\ cfg.GoQuaiArguments = NetworkTable(networkValue).GoQuaiArguments

\* ------------------------------------------------------------- C1

\* C1 as stated: whenever MODE and NETWORK are valid and PORT is the text of
\* a positive integer, a finished load has succeeded and its Params,
\* GenesisBlockIdentifier and GoQuaiArguments are the table entry of NETWORK.
C1_AsStated ==
    \A c \in Callers :
        (/\ Done(c)
         /\ ValidMode(env[ModeEnv])
         /\ ValidNetwork(env[NetworkEnv])
         /\ PositiveIntegerText(env[PortEnv]))
        => (Succeeded(c) /\ MatchesTable(ret[c].cfg, env[NetworkEnv]))

\* C1 amended: whenever MODE and NETWORK are valid, SKIP_GO_QUAI_ADMIN is
\* empty or a token the boolean parser accepts, and PORT is the text of a
\* positive integer that fits an int, a finished load has succeeded and its
\* Params, GenesisBlockIdentifier and GoQuaiArguments are the table entry of
\* NETWORK.
C1_TableEntry ==
    \A c \in Callers :
        (/\ Done(c)
         /\ ValidMode(env[ModeEnv])
         /\ ValidNetwork(env[NetworkEnv])
         /\ SkipAccepted(env[SkipGoQuaiAdminEnv])
         /\ PositiveIntegerText(env[PortEnv])
         /\ FitsInt(env[PortEnv]))
        => (Succeeded(c) /\ MatchesTable(ret[c].cfg, env[NetworkEnv]))

\* A load of the LOCAL network has succeeded, with a nil genesis.
C1_Witness ==
    \E c \in Callers :
        /\ Succeeded(c)
        /\ env[NetworkEnv] = Local
        /\ ret[c].cfg.GenesisBlockIdentifier = Nil
        /\ ret[c].cfg.Params = Ref("params.ProgpowLocalChainConfig")

\* ------------------------------------------------------------- C2

\* C2: a finished load has failed exactly when some field is missing or
\* invalid, and its one error is about the earliest such field in the order
\* MODE, NETWORK, GOQUAI, SKIP_GO_QUAI_ADMIN, PORT.
C2_FirstFailure ==
    \A c \in Callers :
        Done(c) =>
            IF FirstFailingField(env) = "none"
            THEN ret[c].err = Nil
            ELSE ret[c].err # Nil /\ ErrorField(ret[c].err) = FirstFailingField(env)

\* SKIP_GO_QUAI_ADMIN is unparseable and PORT is empty or invalid as well:
\* the error is about SKIP_GO_QUAI_ADMIN.
C2_Witness ==
    \E c \in Callers :
        /\ Failed(c)
        /\ ~SkipAccepted(env[SkipGoQuaiAdminEnv])
        /\ ~PortAccepted(env[PortEnv])
        /\ ErrorField(ret[c].err) = SkipGoQuaiAdminEnv

\* ------------------------------------------------------------- C3

\* C3: a finished load returned exactly one of a configuration and an error:
\* with an error the configuration is nil, with a configuration the error is
\* nil.
C3_AllOrNothing ==
    \A c \in Callers :
        Done(c) => ((ret[c].cfg = Nil) # (ret[c].err = Nil))

\* A load failed after it had filled in part of its record.
C3_Witness ==
    \E c \in Callers :
        /\ Failed(c)
        /\ config[c].Network # Nil
        /\ config[c].GoQuaiURL = DefaultGoQuaiURL

\* ------------------------------------------------------------- C4

\* MODE, NETWORK and PORT are valid.
OthersValid ==
    /\ ValidMode(env[ModeEnv])
    /\ ValidNetwork(env[NetworkEnv])
    /\ PortAccepted(env[PortEnv])

\* The load failed with the parse error of SKIP_GO_QUAI_ADMIN, carrying the
\* raw text.
SkipRejected(c) ==
    /\ Failed(c)
    /\ ret[c].err.format = "%w: unable to parse SKIP_GO_QUAI_ADMIN %s"
    /\ ret[c].err.arg = env[SkipGoQuaiAdminEnv]

SkipLoaded(c, val) == Succeeded(c) /\ ret[c].cfg.SkipGoQuaiAdmin = val

\* C4 as stated: with MODE, NETWORK and PORT valid, empty gives false,
\* "TRUE"/"true" give true, "FALSE"/"false" give false, and any other
\* non-empty text fails with the error of SKIP_GO_QUAI_ADMIN.
C4_AsStated ==
    \A c \in Callers :
        (Done(c) /\ OthersValid) =>
            LET v == env[SkipGoQuaiAdminEnv]
            IN  IF v = Empty THEN SkipLoaded(c, FALSE)
                ELSE IF v \in {UpperTrue, LowerTrue} THEN SkipLoaded(c, TRUE)
                ELSE IF v \in {UpperFalse, LowerFalse} THEN SkipLoaded(c, FALSE)
                ELSE SkipRejected(c)

\* C4 amended: with MODE, NETWORK and PORT valid, empty gives false; "1",
\* "t", "T", "TRUE", "true", "True" give true; "0", "f", "F", "FALSE",
\* "false", "False" give false; any other non-empty text fails with the
\* error of SKIP_GO_QUAI_ADMIN.
C4_SkipFlag ==
    \A c \in Callers :
        (Done(c) /\ OthersValid) =>
            LET v == env[SkipGoQuaiAdminEnv]
            IN  IF v = Empty THEN SkipLoaded(c, FALSE)
                ELSE IF v \in TrueTokens THEN SkipLoaded(c, TRUE)
                ELSE IF v \in FalseTokens THEN SkipLoaded(c, FALSE)
                ELSE SkipRejected(c)

\* A load with SKIP_GO_QUAI_ADMIN="1" has succeeded with the flag set.
C4_Witness ==
    \E c \in Callers :
        /\ OthersValid
        /\ env[SkipGoQuaiAdminEnv] = <<"1">>
        /\ SkipLoaded(c, TRUE)

\* ------------------------------------------------------------- C5

\* s spells the word in some mix of upper and lower case.
Spells(s, word) == ToLower(s) = word

\* C5 as stated: with MODE, NETWORK and PORT valid, every upper/lower-case
\* spelling of "true" loads with the flag true and every spelling of "false"
\* loads with the flag false.
C5_AsStated ==
    \A c \in Callers :
        (Done(c) /\ OthersValid) =>
            /\ Spells(env[SkipGoQuaiAdminEnv], LowerTrue) => SkipLoaded(c, TRUE)
            /\ Spells(env[SkipGoQuaiAdminEnv], LowerFalse) => SkipLoaded(c, FALSE)

\* C5 amended: with MODE, NETWORK and PORT valid, of the upper/lower-case
\* spellings of "true" exactly "true", "TRUE" and "True" load, with the flag
\* true, and of the spellings of "false" exactly "false", "FALSE" and
\* "False" load, with the flag false; every other spelling of either word
\* fails with the error of SKIP_GO_QUAI_ADMIN.
C5_ThreeSpellings ==
    \A c \in Callers :
        (Done(c) /\ OthersValid) =>
            LET v == env[SkipGoQuaiAdminEnv]
            IN  /\ Spells(v, LowerTrue) =>
                      IF v \in {LowerTrue, UpperTrue, <<"T", "r", "u", "e">>}
                      THEN SkipLoaded(c, TRUE) ELSE SkipRejected(c)
                /\ Spells(v, LowerFalse) =>
                      IF v \in {LowerFalse, UpperFalse, <<"F", "a", "l", "s", "e">>}
                      THEN SkipLoaded(c, FALSE) ELSE SkipRejected(c)

\* A load with SKIP_GO_QUAI_ADMIN="tRuE" has been rejected.
C5_Witness ==
    \E c \in Callers :
        /\ OthersValid
        /\ env[SkipGoQuaiAdminEnv] = <<"t", "R", "u", "E">>
        /\ SkipRejected(c)

\* ------------------------------------------------------------- C6

\* The fields read before PORT pass.
EarlierPass ==
    /\ ValidMode(env[ModeEnv])
    /\ ValidNetwork(env[NetworkEnv])
    /\ SkipAccepted(env[SkipGoQuaiAdminEnv])

\* C6: when every earlier field passes, an empty PORT fails with "PORT must
\* be populated"; a non-empty PORT that is no numeral, or is zero, or is
\* negative fails with "unable to parse port <value>" carrying the raw text;
\* and every configuration returned has Port equal to the base-10 value of
\* PORT and greater than zero.
C6_Port ==
    \A c \in Callers :
        Done(c) =>
            LET p == env[PortEnv]
            IN  /\ (EarlierPass /\ p = Empty) =>
                      (Failed(c) /\ ret[c].err = ErrorsNew("PORT must be populated"))
                /\ (EarlierPass /\ p # Empty
                      /\ (~IsNumeral(p) \/ IsZeroNumeral(p) \/ IsNegativeNumeral(p))) =>
                      /\ Failed(c)
                      /\ ret[c].err.format = "%w: unable to parse port %s"
                      /\ ret[c].err.arg = p
                /\ Succeeded(c) =>
                      /\ IsNumeral(p)
                      /\ ret[c].cfg.Port = DecimalValue(Unsigned(p))
                      /\ ret[c].cfg.Port > 0

\* A load with PORT="-7" has failed with the parse error of PORT.
C6_Witness ==
    \E c \in Callers :
        /\ EarlierPass
        /\ env[PortEnv] = <<"-", "7">>
        /\ Failed(c)
        /\ ret[c].err.format = "%w: unable to parse port %s"

\* ------------------------------------------------------------- C7

\* C7: an empty MODE fails with "MODE must be populated"; any other MODE
\* than "ONLINE"/"OFFLINE" fails with "<value> is not a valid mode" carrying
\* the raw value; with a valid MODE, an empty NETWORK fails with "NETWORK
\* must be populated" and any other NETWORK than "MAINNET"/"ORCHARD"/"LOCAL"
\* fails with "<value> is not a valid network" carrying the raw value; a
\* configuration returned has Mode equal to MODE.
C7_ModeNetwork ==
    \A c \in Callers :
        Done(c) =>
            LET m == env[ModeEnv]
                n == env[NetworkEnv]
            IN  /\ m = Empty =>
                      (Failed(c) /\ ret[c].err = ErrorsNew("MODE must be populated"))
                /\ (m # Empty /\ m # Online /\ m # Offline) =>
                      (Failed(c) /\ ret[c].err = Errorf("%s is not a valid mode", m))
                /\ (ValidMode(m) /\ n = Empty) =>
                      (Failed(c) /\ ret[c].err = ErrorsNew("NETWORK must be populated"))
                /\ (ValidMode(m) /\ n # Empty /\ n # Mainnet /\ n # Orchard /\ n # Local) =>
                      (Failed(c) /\ ret[c].err = Errorf("%s is not a valid network", n))
                /\ Succeeded(c) => ret[c].cfg.Mode = m

\* A load with MODE="online" has failed with the invalid-mode error.
C7_Witness ==
    \E c \in Callers :
        /\ env[ModeEnv] = LowerOnline
        /\ Failed(c)
        /\ ret[c].err.format = "%s is not a valid mode"
        /\ ret[c].err.arg = LowerOnline

\* ------------------------------------------------------------- C8

\* C8: a configuration returned has GoQuaiURL = "http://localhost:8545" and
\* RemoteGoQuai = false when GOQUAI is empty, and GoQuaiURL = GOQUAI and
\* RemoteGoQuai = true when it is not; and a load fails only when one of
\* MODE, NETWORK, SKIP_GO_QUAI_ADMIN, PORT is missing or invalid, whatever
\* GOQUAI holds.
C8_NodeURL ==
    \A c \in Callers :
        /\ Succeeded(c) =>
              /\ ret[c].cfg.RemoteGoQuai = (env[GoQuaiEnv] # Empty)
              /\ ret[c].cfg.GoQuaiURL =
                    IF env[GoQuaiEnv] = Empty THEN DefaultGoQuaiURL ELSE env[GoQuaiEnv]
        /\ (Done(c) /\ ~Succeeded(c)) =>
              /\ FirstFailingField(env) # "none"
              /\ ErrorField(ret[c].err) # GoQuaiEnv

\* A load with GOQUAI="http://blah" has succeeded as a remote node.
C8_Witness ==
    \E c \in Callers :
        /\ Succeeded(c)
        /\ env[GoQuaiEnv] = HttpBlah
        /\ ret[c].cfg.GoQuaiURL = HttpBlah
        /\ ret[c].cfg.RemoteGoQuai

\* ------------------------------------------------------------- C9

\* C9: no step of a load changes the environment, and any two finished
\* loads, run one after the other or interleaved, returned the same
\* outcome: equal configurations, field for field, or the same error.
C9_Idempotent ==
    /\ [][env' = env]_vars
    /\ [](\A c1, c2 \in Callers :
             (Done(c1) /\ Done(c2)) => ret[c1] = ret[c2])

\* Two callers have both loaded a configuration.
C9_Witness ==
    \E c1, c2 \in Callers :
        /\ c1 # c2
        /\ Succeeded(c1)
        /\ Succeeded(c2)
        /\ ret[c1].cfg = ret[c2].cfg

\* ------------------------------------------------------------- C10

\* C10: a finished load has succeeded if and only if MODE is "ONLINE" or
\* "OFFLINE", NETWORK is "MAINNET", "ORCHARD" or "LOCAL",
\* SKIP_GO_QUAI_ADMIN is empty or a token the boolean parser accepts, and
\* PORT is the text of an integer greater than zero that fits an int;
\* otherwise it has failed.
C10_SuccessCondition ==
    \A c \in Callers :
        Done(c) =>
            /\ Succeeded(c) <=>
                  /\ ValidMode(env[ModeEnv])
                  /\ ValidNetwork(env[NetworkEnv])
                  /\ SkipAccepted(env[SkipGoQuaiAdminEnv])
                  /\ env[PortEnv] # Empty
                  /\ PortAccepted(env[PortEnv])
            /\ Succeeded(c) \/ Failed(c)

\* MODE, NETWORK and PORT are valid and SKIP_GO_QUAI_ADMIN is not: the load
\* has failed.
C10_Witness ==
    \E c \in Callers :
        /\ OthersValid
        /\ env[SkipGoQuaiAdminEnv] = Bad
        /\ Failed(c)

====
